---- MODULE Spec2Model ----
(***************************************************************************)
(* Split-ordered list (lock-free hash map) of                              *)
(* homework/src/hash_table/split_ordered_list.rs, at the granularity of    *)
(* one shared-memory access per step.  The sorted lock-free list           *)
(* (cs431::lockfree::list) and the bucket directory (GrowableArray) are    *)
(* collaborators whose code is not part of the sources at hand; their      *)
(* cursor operations are modelled from their contract.                     *)
(***************************************************************************)
EXTENDS Integers, Sequences, FiniteSets, TLC

(* ---------------------------------------------------------------------- *)
(* Bounds and program constants                                            *)
(* ---------------------------------------------------------------------- *)

\* Width of usize in the model (64 in the program).
KeyBits == 5

\* Number of threads that may run operations concurrently.
NumThreads == 2

\* const LOAD_FACTOR: usize = 2
LOAD_FACTOR == 2

\* size: AtomicUsize::new(2)
InitSize == 2

Threads == 1..NumThreads

Pow2(n) == 2 ^ n

UsizeMod == Pow2(KeyBits)

\* Every key a caller can pass: the values of usize.
Keys == 0..(UsizeMod - 1)

\* Keys accepted by assert_valid_key: topmost bit 0.
ValidKeys == 0..(Pow2(KeyBits - 1) - 1)

\* Directory indices: index % size, size never exceeding the key range here.
Buckets == 0..(Pow2(KeyBits - 1) - 1)

Null == 0

(* ---------------------------------------------------------------------- *)
(* Pure functions                                                          *)
(* ---------------------------------------------------------------------- *)

RECURSIVE RevBits(_, _)
\* usize::reverse_bits over n bits
RevBits(x, n) == IF n = 0 THEN 0
                 ELSE (x % 2) * Pow2(n - 1) + RevBits(x \div 2, n - 1)

reverse_bits(x) == RevBits(x, KeyBits)

\* x | 1
BitOr1(x) == IF x % 2 = 0 THEN x + 1 ELSE x

get_so_bucket_key(key) == reverse_bits(key)

\* A data key without the tag bit.
data_key_untagged(key) == reverse_bits(key)

get_so_data_key(key) == BitOr1(reverse_bits(key))

RECURSIVE HighBit(_)
\* 1 << (bits - leading_zeros(b) - 1), for b >= 1
HighBit(b) == IF b <= 1 THEN b ELSE 2 * HighBit(b \div 2)

\* A parent function that takes the bucket just below.
parent_below(bucket) == bucket - 1

\* bucket ^ (highest set bit of bucket); the caller never passes 0 or 1
get_parent_bucket(bucket) == bucket - HighBit(bucket)

\* A validation that accepts every key of the word.
valid_key_any(key) == key < Pow2(KeyBits)

\* key.leading_zeros() != 0
valid_key(key) == key < Pow2(KeyBits - 1)

\* A trigger that fires as soon as the count reaches the threshold.
resize_needed_at(prev_count, prev_size) == prev_count >= prev_size * LOAD_FACTOR

\* prev_count > prev_size * LOAD_FACTOR
resize_needed(prev_count, prev_size) == prev_count > prev_size * LOAD_FACTOR

\* A resize that adds as many buckets as there were at the start.
grown_size_added(prev_size) == (prev_size + InitSize) % UsizeMod

\* prev_size * 2, the new value of the compare_exchange on size
grown_size(prev_size) == (prev_size * 2) % UsizeMod

(* ---------------------------------------------------------------------- *)
(* State                                                                   *)
(* ---------------------------------------------------------------------- *)

VARIABLES
    nodes,    \* list nodes by address 1..Len: [key, value, next]; next = [p, t]
    slots,    \* bucket directory: bucket index -> tagged pointer (NullPtr: empty)
    size,     \* number of buckets
    count,    \* number of items
    th,       \* per thread: position in the code, locals, and what it observed
    setup,    \* operations the main thread runs before the threads are spawned
    todo,     \* per thread: operations still to be called
    spawned,  \* the concurrent phase has begun
    scen,     \* the scenario being run (never changes)
    nret,     \* number of calls that have returned
    stable,   \* per key: values of the Ok inserts since the last delete was invoked
    ref,      \* reference associative array, run side by side with the calls
    deleted   \* addresses of the nodes whose delete returned Ok, in order

mapVars == <<nodes, slots, size, count, th, setup, todo, spawned, scen, nret,
             stable, ref, deleted>>

\* hello_server/cache.rs: Cache
VARIABLES
    cdata,    \* data: key -> "absent", "computing" (CacheEntry::Computing) or a value
    cmutex,   \* holder of the Mutex around data (NoThread: unlocked)
    cpoison,  \* the Mutex is poisoned (a thread panicked while holding it)
    cth,      \* per thread: position in get_or_insert_with, key, value, result
    cruns     \* per key: the threads whose f has been called, in order

cacheVars == <<cdata, cmutex, cpoison, cth, cruns>>

\* hazard_pointer/hazard.rs: HazardBag, Shield, and the pointer they protect
VARIABLES
    hslots,   \* the bag's slots, newest first from head: [active, hazard]
    hsrc,     \* the AtomicPtr the shields protect
    hth,      \* per thread: position in the code, shield, locals
    hfreed,   \* pointers a reclaiming thread found unprotected and freed
    hleft     \* rounds the threads may still begin

hazardVars == <<hslots, hsrc, hth, hfreed, hleft>>

\* list_set.rs: OrderedListSet
VARIABLES
    lnext,    \* value of each Mutex<*mut Node>: index 0 is head, n is node n's next
    ldata,    \* data of each node
    llock,    \* holder of each of those mutexes (NoThread: unlocked)
    lth,      \* per thread: position in the code, guards held, key, result
    lleft     \* calls the threads may still make

setVars == <<lnext, ldata, llock, lth, lleft>>

\* What the operations of the split-ordered list leave alone.
\* get_so_bucket_key / get_so_data_key / lookup_bucket's index, applied to inputs
VARIABLES
    ekey,     \* a key
    ekey2,    \* a second key
    esize,    \* a value of size
    eout      \* the keys and the bucket computed for them (<<>>: not yet)

encVars == <<ekey, ekey2, esize, eout>>

others == <<cacheVars, hazardVars, setVars, encVars>>

vars == <<mapVars, others>>

\* Tagged pointer (crossbeam Shared): address and mark bit.
Ptr(p, t) == [p |-> p, t |-> t]

NullPtr == Ptr(Null, 0)

\* An atomic pointer cell: a directory slot or the next field of a node.
SlotRef(b) == <<"slot", b>>

NextRef(n) == <<"next", n>>

\* Atomic load of a cell.
Load(ref_) == IF ref_[1] = "slot" THEN slots[ref_[2]] ELSE nodes[ref_[2]].next

\* The nodes and the directory after an atomic store of ptr into a cell.
NodesAfterStore(ns, ref_, ptr) ==
    IF ref_[1] = "next" THEN [ns EXCEPT ![ref_[2]].next = ptr] ELSE ns

SlotsAfterStore(ref_, ptr) ==
    IF ref_[1] = "slot" THEN [slots EXCEPT ![ref_[2]] = ptr] ELSE slots

RECURSIVE ChainFrom(_, _, _)
\* The addresses reached from node n by next pointers in the node array ns.
ChainFrom(ns, n, fuel) ==
    IF n = Null \/ fuel = 0 THEN <<>>
    ELSE <<n>> \o ChainFrom(ns, ns[n].next.p, fuel - 1)

\* The list as traversed from its head (the sentinel of bucket 0, node 1).
ChainIn(ns) == ChainFrom(ns, 1, Len(ns))

Chain == ChainIn(nodes)

Range(f) == { f[i] : i \in DOMAIN f }

\* Live entries for key k: unmarked data nodes with k's data key reachable from
\* the head.
LiveIn(ns, k) ==
    { n \in Range(ChainIn(ns)) :
        /\ ns[n].key = get_so_data_key(k)
        /\ ns[n].value # 0
        /\ ns[n].next.t = 0 }

Live(k) == LiveIn(nodes, k)

NoOp == [kind |-> "none", key |-> 0, val |-> 0]

NoRes == [kind |-> "none", key |-> 0, ok |-> FALSE, val |-> 0]

\* Locals of a thread outside any call.  made is the cursor position the last
\* make_bucket of the call returned to lookup_bucket; res, expect, want and
\* absent record what the call observed; raced is set when a delete of the
\* call's key was inside its call at some instant of this call.
IdleLocals == [pc |-> "idle", op |-> NoOp, phase |-> 0, bucket |-> 0,
               stk |-> <<>>, prev |-> SlotRef(0), curr |-> NullPtr,
               prev_next |-> NullPtr, found |-> FALSE,
               prev_count |-> 0, prev_size |-> 0, next |-> NullPtr,
               made |-> NullPtr, res |-> NoRes, why |-> "none",
               expect |-> <<>>, want |-> NoRes, absent |-> FALSE,
               raced |-> FALSE]

\* Default::default: sentinels of buckets 0 and 1 linked, their slots stored.
InitNodes == << [key |-> get_so_bucket_key(0), value |-> 0, next |-> Ptr(2, 0)],
                [key |-> get_so_bucket_key(1), value |-> 0, next |-> NullPtr] >>

\* A directory in which only bucket 0 is installed at construction.
InitSlotsOnlyZero == [b \in Buckets |-> IF b = 0 THEN Ptr(1, 0) ELSE NullPtr]

InitSlots == [b \in Buckets |->
                 IF b = 0 THEN Ptr(1, 0) ELSE IF b = 1 THEN Ptr(2, 0) ELSE NullPtr]

(* ---------------------------------------------------------------------- *)
(* Calls and returns                                                       *)
(* ---------------------------------------------------------------------- *)

Ins(k, v) == [kind |-> "insert", key |-> k, val |-> v]

Del(k) == [kind |-> "delete", key |-> k, val |-> 0]

Look(k) == [kind |-> "lookup", key |-> k, val |-> 0]

\* Result of a call: ok is Ok(..) / Some(..), val the value carried.
Res(op, ok, val) == [kind |-> op.kind, key |-> op.key, ok |-> ok, val |-> val]

\* Locals l with the call returning res (consumed by Commit).
Returning(l, res) == [l EXCEPT !.pc = "return", !.res = res]

\* panic!: the thread unwinds and never takes another step.
Panicked(l, why) == [l EXCEPT !.pc = "panicked", !.why = why]

Pending(l) == l.pc \notin {"idle", "panicked"}

\* What the reference associative array m answers to op, and m afterwards.
RefResult(m, op) ==
    CASE op.kind = "lookup" -> Res(op, m[op.key] # 0, m[op.key])
      [] op.kind = "insert" -> IF m[op.key] = 0 THEN Res(op, TRUE, 0)
                               ELSE Res(op, FALSE, op.val)
      [] OTHER -> Res(op, m[op.key] # 0, m[op.key])

RefApply(m, op) ==
    CASE op.kind = "insert" /\ m[op.key] = 0 -> [m EXCEPT ![op.key] = op.val]
      [] op.kind = "delete" -> [m EXCEPT ![op.key] = 0]
      [] OTHER -> m

\* Installs the new locals l of thread t after a step that leaves the node
\* array as nodes'; a returning call leaves the thread idle.  Every thread
\* inside a call notes whether its key has no live entry now.
Commit(t, l) ==
    /\ th' = [u \in Threads |->
               IF u = t
               THEN IF l.pc = "return"
                    THEN [IdleLocals EXCEPT !.res = l.res, !.expect = l.expect,
                                            !.want = l.want, !.absent = l.absent]
                    ELSE IF Pending(l)
                    THEN [l EXCEPT !.absent = @ \/ LiveIn(nodes', l.op.key) = {}]
                    ELSE l
               ELSE IF Pending(th[u])
                    THEN [th[u] EXCEPT !.absent = @ \/ LiveIn(nodes', th[u].op.key) = {}]
                    ELSE th[u]]
    /\ nret' = IF l.pc = "return" THEN nret + 1 ELSE nret
    /\ stable' = IF l.pc = "return" /\ l.res.kind = "insert" /\ l.res.ok
                                      /\ ~l.raced
                 THEN [stable EXCEPT ![l.res.key] = Append(@, l.op.val)]
                 ELSE stable
    /\ deleted' = IF l.pc = "return" /\ l.res.kind = "delete" /\ l.res.ok
                  THEN Append(deleted, l.curr.p)
                  ELSE deleted

\* The operation thread t calls next: the main thread (1) first runs setup
\* alone; the threads run their own lists once setup has completed.
InSetup(t) == setup # <<>> /\ t = 1 /\ ~spawned

InSpawn(t) == setup = <<>> /\ todo[t] # <<>> /\ (spawned \/ th[1].pc = "idle")

NextOp(t) == IF InSetup(t) THEN Head(setup) ELSE Head(todo[t])

\* lookup / insert / delete entry: assert_valid_key, then find.
Call(t) ==
    /\ th[t].pc = "idle"
    /\ UNCHANGED others
    /\ InSetup(t) \/ InSpawn(t)
    /\ LET op == NextOp(t)
           valid == valid_key(op.key)
           deleting == \E u \in Threads : /\ Pending(th[u])
                                            /\ th[u].op.kind = "delete"
                                            /\ th[u].op.key = op.key
           l0 == [IdleLocals EXCEPT
                    !.op = op, !.phase = 1, !.raced = deleting,
                    !.expect = IF valid /\ op.kind = "lookup" /\ ~deleting
                               THEN stable[op.key] ELSE <<>>,
                    !.want = IF valid THEN RefResult(ref, op) ELSE NoRes,
                    !.absent = valid /\ Live(op.key) = {}]
           l1 == IF valid THEN [l0 EXCEPT !.pc = "lb_size"]
                 ELSE Panicked(l0, "assert_valid_key")
           invoked == valid /\ op.kind = "delete"
       IN /\ th' = [u \in Threads |->
                      IF u = t THEN l1
                      ELSE IF invoked /\ Pending(th[u]) /\ th[u].op.key = op.key
                           THEN [th[u] EXCEPT !.expect = <<>>, !.raced = TRUE]
                           ELSE th[u]]
          /\ stable' = IF invoked THEN [stable EXCEPT ![op.key] = <<>>] ELSE stable
          /\ ref' = IF valid THEN RefApply(ref, op) ELSE ref
    /\ IF InSetup(t)
       THEN setup' = Tail(setup) /\ UNCHANGED <<todo, spawned>>
       ELSE todo' = [todo EXCEPT ![t] = Tail(@)] /\ spawned' = TRUE /\ UNCHANGED setup
    /\ UNCHANGED <<nodes, slots, size, count, scen, nret, deleted>>

\* What no step inside a call changes.
Driver == <<setup, todo, spawned, scen, ref>>

(* ---------------------------------------------------------------------- *)
(* lookup_bucket, make_bucket, insert_bucket                               *)
(* ---------------------------------------------------------------------- *)

\* lookup_bucket: let size = self.size.load(Acquire); let bucket = index % size
LookupBucketSize(t) ==
    /\ th[t].pc = "lb_size"
    /\ UNCHANGED others
    /\ UNCHANGED <<nodes, slots, size, count, Driver>>
    /\ Commit(t, [th[t] EXCEPT !.pc = "lb_slot", !.bucket = th[t].op.key % size,
                                !.made = NullPtr])

\* lookup_bucket: load the slot; null -> make_bucket, else Cursor::new(slot, node)
\* which find then hands to find_harris (prev_next = self.curr).
LookupBucketSlot(t) ==
    /\ th[t].pc = "lb_slot"
    /\ UNCHANGED others
    /\ UNCHANGED <<nodes, slots, size, count, Driver>>
    /\ LET l == th[t]
           node_raw == slots[l.bucket]
       IN Commit(t, IF node_raw.p = Null
                    THEN [l EXCEPT !.pc = "mb_parent", !.stk = <<l.bucket>>]
                    ELSE [l EXCEPT !.pc = "fh_loop", !.prev = SlotRef(l.bucket),
                                   !.curr = Ptr(node_raw.p, 0),
                                   !.prev_next = Ptr(node_raw.p, 0)])

\* make_bucket: parent = get_parent_bucket(bucket); load the parent's slot;
\* null -> make_bucket(parent) first; then insert_bucket(Cursor::new(parent_raw,
\* node_raw), bucket).
MakeBucketParent(t) ==
    /\ th[t].pc = "mb_parent"
    /\ UNCHANGED others
    /\ UNCHANGED <<nodes, slots, size, count, Driver>>
    /\ LET l == th[t]
           bucket == Head(l.stk)
           parent == get_parent_bucket(bucket)
           node_raw == slots[parent]
       IN Commit(t, IF bucket <= 1
                    THEN Panicked(l, "get_parent_bucket")
                    ELSE IF node_raw.p = Null
                    THEN [l EXCEPT !.stk = <<parent>> \o l.stk]
                    ELSE [l EXCEPT !.pc = "ib_find", !.prev = SlotRef(parent),
                                   !.curr = Ptr(node_raw.p, 0)])

\* The locals after make_bucket returns its cursor: to lookup_bucket's caller
\* (find, which starts find_harris), or to the make_bucket that recursed, which
\* drops the cursor and goes on with Cursor::new(parent_raw, node_raw), node_raw
\* being the null it loaded before the recursion.
MakeBucketReturn(l) ==
    LET rest == Tail(l.stk)
    IN IF rest = <<>>
       THEN [l EXCEPT !.stk = rest, !.pc = "fh_loop", !.prev_next = l.curr,
                      !.made = l.curr]
       ELSE [l EXCEPT !.stk = rest, !.pc = "ib_find",
                      !.prev = SlotRef(get_parent_bucket(Head(rest))),
                      !.curr = NullPtr]

\* insert_bucket: one iteration of cursor.find_harris_herlihy_shavit(&bucket_key);
\* found -> return cursor (to make_bucket), not found -> cursor.insert.
InsertBucketFind(t) ==
    /\ th[t].pc = "ib_find"
    /\ UNCHANGED others
    /\ UNCHANGED <<nodes, slots, size, count, Driver>>
    /\ LET l == th[t]
           bucket_key == get_so_bucket_key(Head(l.stk))
           c == l.curr.p
       IN Commit(t, IF c = Null THEN [l EXCEPT !.pc = "ib_cas"]
                    ELSE IF nodes[c].key < bucket_key
                    THEN [l EXCEPT !.curr = nodes[c].next, !.prev = NextRef(c)]
                    ELSE IF nodes[c].key = bucket_key /\ nodes[c].next.t = 0
                    THEN [l EXCEPT !.pc = "mb_load"]
                    ELSE [l EXCEPT !.pc = "ib_cas"])

\* insert_bucket: cursor.insert(node): node.next = curr; CAS(prev, curr, node).
\* Ok -> break and return the cursor; Err(n) -> node = n and loop to the find.
InsertBucketCas(t) ==
    /\ th[t].pc = "ib_cas"
    /\ UNCHANGED others
    /\ UNCHANGED <<size, count, Driver>>
    /\ LET l == th[t]
           new == Len(nodes) + 1
           node == [key |-> get_so_bucket_key(Head(l.stk)), value |-> 0,
                    next |-> l.curr]
       IN IF Load(l.prev) = l.curr
          THEN /\ nodes' = Append(NodesAfterStore(nodes, l.prev, Ptr(new, 0)), node)
               /\ slots' = SlotsAfterStore(l.prev, Ptr(new, 0))
               /\ Commit(t, [l EXCEPT !.pc = "mb_load", !.curr = Ptr(new, 0)])
          ELSE /\ UNCHANGED <<nodes, slots>>
               /\ Commit(t, [l EXCEPT !.pc = "ib_find"])

\* make_bucket: load the bucket's slot; null -> store, else leave it.
MakeBucketLoad(t) ==
    /\ th[t].pc = "mb_load"
    /\ UNCHANGED others
    /\ UNCHANGED <<nodes, slots, size, count, Driver>>
    /\ LET l == th[t]
       IN Commit(t, IF slots[Head(l.stk)].p = Null
                    THEN [l EXCEPT !.pc = "mb_store"]
                    ELSE MakeBucketReturn(l))

\* make_bucket: bucket.store(cursor.curr(), Release); return cursor.
MakeBucketStore(t) ==
    /\ th[t].pc = "mb_store"
    /\ UNCHANGED others
    /\ UNCHANGED <<nodes, size, count, Driver>>
    /\ slots' = [slots EXCEPT ![Head(th[t].stk)] = th[t].curr]
    /\ Commit(t, MakeBucketReturn(th[t]))

(* ---------------------------------------------------------------------- *)
(* find                                                                    *)
(* ---------------------------------------------------------------------- *)

\* What lookup / insert / delete do with find's (size, found, cursor).
AfterFind(l, found) ==
    CASE l.op.kind = "lookup" ->
           \* match found { true => cursor.lookup()?.into(), false => None }
           IF found /\ nodes[l.curr.p].value # 0
           THEN Returning(l, Res(l.op, TRUE, nodes[l.curr.p].value))
           ELSE Returning(l, Res(l.op, FALSE, 0))
      [] l.op.kind = "insert" /\ l.phase = 1 ->
           \* if found { return Err(value) }
           IF found THEN Returning(l, Res(l.op, FALSE, l.op.val))
           ELSE [l EXCEPT !.pc = "ins_count", !.found = found]
      [] l.op.kind = "insert" /\ l.phase = 2 ->
           \* the second find's found is not looked at
           [l EXCEPT !.pc = "ins_cas", !.found = found]
      [] OTHER ->
           \* delete: if !found { return Err(()) }
           IF found THEN [l EXCEPT !.pc = "del_mark", !.found = found]
           ELSE Returning(l, Res(l.op, FALSE, 0))

\* The end of find_harris: prev and curr adjacent -> Ok(found); otherwise the
\* marked nodes between them are still to be unlinked by a CAS on prev.
FindHarrisEnd(l, found) ==
    IF l.prev_next = l.curr THEN AfterFind(l, found)
    ELSE [l EXCEPT !.pc = "fh_cas", !.found = found]

\* find: one iteration of bucket_cursor.find_harris(&get_so_data_key(key)).
FindHarrisLoop(t) ==
    /\ th[t].pc = "fh_loop"
    /\ UNCHANGED others
    /\ UNCHANGED <<nodes, slots, size, count, Driver>>
    /\ LET l == th[t]
           key == get_so_data_key(l.op.key)
           c == l.curr.p
           next == nodes[c].next
       IN Commit(t,
            IF c = Null THEN FindHarrisEnd(l, FALSE)
            ELSE IF next.t # 0 THEN [l EXCEPT !.curr = Ptr(next.p, 0)]
            ELSE IF nodes[c].key < key
            THEN [l EXCEPT !.curr = next, !.prev = NextRef(c), !.prev_next = next]
            ELSE FindHarrisEnd(l, nodes[c].key = key))

\* find_harris: CAS(prev, prev_next, curr) unlinks the marked chain; a failed CAS
\* is Err(()), which find unwraps.
FindHarrisCas(t) ==
    /\ th[t].pc = "fh_cas"
    /\ UNCHANGED others
    /\ UNCHANGED <<size, count, Driver>>
    /\ LET l == th[t]
       IN IF Load(l.prev) = l.prev_next
          THEN /\ nodes' = NodesAfterStore(nodes, l.prev, l.curr)
               /\ slots' = SlotsAfterStore(l.prev, l.curr)
               /\ Commit(t, AfterFind(l, l.found))
          ELSE /\ UNCHANGED <<nodes, slots>>
               /\ Commit(t, Panicked(l, "unwrap"))

(* ---------------------------------------------------------------------- *)
(* insert                                                                  *)
(* ---------------------------------------------------------------------- *)

\* let prev_count = self.count.fetch_add(1, AcqRel) + 1
InsertCount(t) ==
    /\ th[t].pc = "ins_count"
    /\ UNCHANGED others
    /\ UNCHANGED <<nodes, slots, size, Driver>>
    /\ count' = (count + 1) % UsizeMod
    /\ Commit(t, [th[t] EXCEPT !.pc = "ins_size", !.prev_count = count'])

\* let prev_size = self.size.load(Acquire); if prev_count > prev_size * LOAD_FACTOR
InsertSize(t) ==
    /\ th[t].pc = "ins_size"
    /\ UNCHANGED others
    /\ UNCHANGED <<nodes, slots, size, count, Driver>>
    /\ Commit(t, IF resize_needed(th[t].prev_count, size)
                 THEN [th[t] EXCEPT !.pc = "ins_grow", !.prev_size = size]
                 ELSE [th[t] EXCEPT !.pc = "lb_size", !.prev_size = size,
                                    !.phase = 2])

\* let _ = self.size.compare_exchange(prev_size, prev_size * 2, ..)
InsertGrow(t) ==
    /\ th[t].pc = "ins_grow"
    /\ UNCHANGED others
    /\ UNCHANGED <<nodes, slots, count, Driver>>
    /\ size' = IF size = th[t].prev_size THEN grown_size(th[t].prev_size) ELSE size
    /\ Commit(t, [th[t] EXCEPT !.pc = "lb_size", !.phase = 2])

\* loop { match cursor.insert(node, guard) { Ok(_) => break, .. } }  Ok(())
InsertCas(t) ==
    /\ th[t].pc = "ins_cas"
    /\ UNCHANGED others
    /\ UNCHANGED <<size, count, Driver>>
    /\ LET l == th[t]
           new == Len(nodes) + 1
           node == [key |-> get_so_data_key(l.op.key), value |-> l.op.val,
                    next |-> l.curr]
       IN IF Load(l.prev) = l.curr
          THEN /\ nodes' = Append(NodesAfterStore(nodes, l.prev, Ptr(new, 0)), node)
               /\ slots' = SlotsAfterStore(l.prev, Ptr(new, 0))
               /\ Commit(t, Returning([l EXCEPT !.curr = Ptr(new, 0)],
                                      Res(l.op, TRUE, 0)))
          ELSE /\ UNCHANGED <<nodes, slots>>
               /\ Commit(t, [l EXCEPT !.pc = "ins_retry"])

\* Err(n) => node = n: the loop goes round to cursor.insert with the same cursor.
InsertRetry(t) ==
    /\ th[t].pc = "ins_retry"
    /\ UNCHANGED others
    /\ UNCHANGED <<nodes, slots, size, count, Driver>>
    /\ Commit(t, [th[t] EXCEPT !.pc = "ins_cas"])

(* ---------------------------------------------------------------------- *)
(* delete                                                                  *)
(* ---------------------------------------------------------------------- *)

\* cursor.delete: next = curr.next.fetch_or(1); already marked -> Err(()), and
\* delete's loop runs find again.
DeleteMark(t) ==
    /\ th[t].pc = "del_mark"
    /\ UNCHANGED others
    /\ UNCHANGED <<slots, size, count, Driver>>
    /\ LET l == th[t]
           c == l.curr.p
           old == nodes[c].next
       IN /\ nodes' = [nodes EXCEPT ![c].next = Ptr(old.p, 1)]
          /\ Commit(t, IF old.t = 1
                       THEN [l EXCEPT !.pc = "lb_size"]
                       ELSE [l EXCEPT !.pc = "del_unlink", !.next = old])

\* cursor.delete: CAS(prev, curr, next) unlinks the node; its failure is ignored.
DeleteUnlink(t) ==
    /\ th[t].pc = "del_unlink"
    /\ UNCHANGED others
    /\ UNCHANGED <<size, count, Driver>>
    /\ LET l == th[t]
       IN IF Load(l.prev) = l.curr
          THEN /\ nodes' = NodesAfterStore(nodes, l.prev, l.next)
               /\ slots' = SlotsAfterStore(l.prev, l.next)
          ELSE UNCHANGED <<nodes, slots>>
    /\ Commit(t, [th[t] EXCEPT !.pc = "del_count"])

\* self.count.fetch_sub(1, AcqRel); return v.as_ref().ok_or(())
DeleteCount(t) ==
    /\ th[t].pc = "del_count"
    /\ UNCHANGED others
    /\ UNCHANGED <<nodes, slots, size, Driver>>
    /\ count' = (count - 1) % UsizeMod
    /\ LET l == th[t]
           v == nodes[l.curr.p].value
       IN Commit(t, Returning(l, Res(l.op, v # 0, v)))

(* ---------------------------------------------------------------------- *)
(* Cache::get_or_insert_with (hello_server/cache.rs)                       *)
(* ---------------------------------------------------------------------- *)

\* Number of keys the callers of the cache use.
NumCacheKeys == 2

\* Number of calls each thread makes.
CacheCalls == 1

CacheKeys == 1..NumCacheKeys

\* No thread: an unlocked Mutex.
NoThread == 0

\* CacheEntry (lines 11-15); Absent is a key with no entry in the HashMap.
Absent == <<>>

Computing == <<"Computing">>

Value(v) == <<"Value", v>>

\* The value f computes for key when thread t's closure is the one called.
CacheF(t, key) == 10 * t + key

CacheIdle == [pc |-> "idle", key |-> 0, v |-> 0, ret |-> 0, left |-> CacheCalls]

CacheInit ==
    /\ cdata = [k \in CacheKeys |-> Absent]
    /\ cmutex = NoThread
    /\ cpoison = FALSE
    /\ cth = [t \in Threads |-> CacheIdle]
    /\ cruns = [k \in CacheKeys |-> <<>>]

CacheFrame == UNCHANGED <<mapVars, hazardVars, setVars, encVars>>

\* A mutex holder that keeps the guard while f runs.
mutex_kept(t) == t

\* drop(data) before f is called: the Mutex is unlocked.
mutex_after_insert(t) == NoThread

\* self.data.lock().unwrap() / the re-lock inside Condvar::wait(..).unwrap():
\* blocks while the Mutex is held; a poisoned Mutex makes unwrap panic.
CacheAcquire(t, locked) ==
    /\ cmutex = NoThread
    /\ IF cpoison
       THEN /\ cth' = [cth EXCEPT ![t].pc = "panicked"]
            /\ UNCHANGED cmutex
       ELSE /\ cth' = [cth EXCEPT ![t].pc = locked]
            /\ cmutex' = t
    /\ UNCHANGED <<cdata, cpoison, cruns>>
    /\ CacheFrame

\* A thread calls get_or_insert_with(key, f).
CacheCall(t) ==
    /\ cth[t].pc = "idle"
    /\ cth[t].left > 0
    /\ \E k \in CacheKeys :
         cth' = [cth EXCEPT ![t] = [pc |-> "lock", key |-> k, v |-> 0, ret |-> 0,
                                    left |-> @.left - 1]]
    /\ UNCHANGED <<cdata, cmutex, cpoison, cruns>>
    /\ CacheFrame

\* line 45
CacheLock(t) == cth[t].pc = "lock" /\ CacheAcquire(t, "check")

\* lines 46-62: Value: return it; Computing: wait on its Condvar (unlocks the
\* Mutex); absent: insert Computing, drop the guard.
CacheCheck(t) ==
    /\ cth[t].pc = "check"
    /\ LET k == cth[t].key
           e == cdata[k]
       IN CASE e = Absent ->
                 /\ cdata' = [cdata EXCEPT ![k] = Computing]
                 /\ cmutex' = mutex_after_insert(t)
                 /\ cth' = [cth EXCEPT ![t].pc = "call_f"]
            [] e = Computing ->
                 /\ cmutex' = NoThread
                 /\ cth' = [cth EXCEPT ![t].pc = "wait"]
                 /\ UNCHANGED cdata
            [] OTHER ->
                 /\ cmutex' = NoThread
                 /\ cth' = [cth EXCEPT ![t].pc = "idle", ![t].ret = e[2]]
                 /\ UNCHANGED cdata
    /\ UNCHANGED <<cpoison, cruns>>
    /\ CacheFrame

\* line 63: f is called
CacheCallF(t) ==
    /\ cth[t].pc = "call_f"
    /\ cth' = [cth EXCEPT ![t].pc = "in_f"]
    /\ cruns' = [cruns EXCEPT ![cth[t].key] = Append(@, t)]
    /\ UNCHANGED <<cdata, cmutex, cpoison>>
    /\ CacheFrame

\* line 63: f returns v
CacheReturnF(t) ==
    /\ cth[t].pc = "in_f"
    /\ cth' = [cth EXCEPT ![t].pc = "lock2", ![t].v = CacheF(t, cth[t].key)]
    /\ UNCHANGED <<cdata, cmutex, cpoison, cruns>>
    /\ CacheFrame

\* line 64
CacheLock2(t) == cth[t].pc = "lock2" /\ CacheAcquire(t, "store")

\* lines 65-70: replace Computing by Value(v), notify_all, unlock, return v
CacheStore(t) ==
    /\ cth[t].pc = "store"
    /\ cdata' = [cdata EXCEPT ![cth[t].key] = Value(cth[t].v)]
    /\ cmutex' = NoThread
    /\ cth' = [u \in Threads |->
                 IF u = t THEN [cth[t] EXCEPT !.pc = "idle", !.ret = cth[t].v]
                 ELSE IF cth[u].pc = "wait" /\ cth[u].key = cth[t].key
                      THEN [cth[u] EXCEPT !.pc = "relock"]
                      ELSE cth[u]]
    /\ UNCHANGED <<cpoison, cruns>>
    /\ CacheFrame

\* line 51: Condvar::wait returns without a notification (a spurious wakeup,
\* which std::sync::Condvar::wait documents)
CacheSpuriousWake(t) ==
    /\ cth[t].pc = "wait"
    /\ cth' = [cth EXCEPT ![t].pc = "relock"]
    /\ UNCHANGED <<cdata, cmutex, cpoison, cruns>>
    /\ CacheFrame

\* line 51: wait re-locks the Mutex before it returns
CacheRelock(t) == cth[t].pc = "relock" /\ CacheAcquire(t, "recheck")

\* lines 52-56: Value: return it; Computing: unreachable!() panics with the
\* guard held, which poisons the Mutex
CacheRecheck(t) ==
    /\ cth[t].pc = "recheck"
    /\ cmutex' = NoThread
    /\ LET e == cdata[cth[t].key]
       IN IF e = Computing
          THEN /\ cth' = [cth EXCEPT ![t].pc = "panicked"]
               /\ cpoison' = TRUE
          ELSE /\ cth' = [cth EXCEPT ![t].pc = "idle", ![t].ret = e[2]]
               /\ UNCHANGED cpoison
    /\ UNCHANGED <<cdata, cruns>>
    /\ CacheFrame

CacheStep(t) ==
    \/ CacheCall(t)
    \/ CacheLock(t)
    \/ CacheCheck(t)
    \/ CacheCallF(t)
    \/ CacheReturnF(t)
    \/ CacheLock2(t)
    \/ CacheStore(t)
    \/ CacheSpuriousWake(t)
    \/ CacheRelock(t)
    \/ CacheRecheck(t)

CacheNext == \E t \in Threads : CacheStep(t)

(* ---------------------------------------------------------------------- *)
(* Shield and HazardBag (hazard_pointer/hazard.rs)                         *)
(* ---------------------------------------------------------------------- *)

\* Largest pointer value src takes; src starts at pointer 1 and each retirement
\* replaces it by the next pointer.
MaxPtr == 2

\* Number of rounds (a shield's life, or a retirement) the threads run in all.
HazardRounds == 3

\* The null pointer; hazard 0 is an empty slot, slot index 0 the end of the bag.
NullHazard == 0

\* A new slot pushed without being marked active.
NewSlotInactive == [active |-> FALSE, hazard |-> NullHazard]

\* HazardSlot::new() with active stored true (lines 139-140)
NewSlot == [active |-> TRUE, hazard |-> NullHazard]

HazardIdle == [pc |-> "idle", slot |-> NullHazard, pointer |-> NullHazard,
               seen |-> NullHazard, curr |-> NullHazard, hazards |-> {},
               old |-> NullHazard, protect |-> FALSE, failed |-> FALSE]

HazardInit ==
    /\ hslots = <<>>
    /\ hsrc = 1
    /\ hth = [t \in Threads |-> HazardIdle]
    /\ hfreed = {}
    /\ hleft = HazardRounds

HazardFrame == UNCHANGED <<mapVars, cacheVars, setVars, encVars>>

\* A validation that accepts whatever src holds.
validated_always(new_ptr, pointer) == TRUE

\* line 43: new_ptr == *pointer
validated(new_ptr, pointer) == new_ptr = pointer

\* The slot's hazard after the shield is dropped: line 74 stores only active.
hazard_after_drop(hazard) == hazard

\* Shield::new, acquire_slot, try_acquire_inactive line 164: load head
HzNew(t) ==
    /\ hth[t].pc = "idle"
    /\ hleft > 0
    /\ hleft' = hleft - 1
    /\ hth' = [hth EXCEPT ![t] = [HazardIdle EXCEPT !.pc = "tai_cas",
                                    !.curr = Len(hslots)]]
    /\ UNCHANGED <<hslots, hsrc, hfreed>>
    /\ HazardFrame

\* try_acquire_inactive lines 165-174: CAS active false -> true, else next
HzTryAcquire(t) ==
    /\ hth[t].pc = "tai_cas"
    /\ LET c == hth[t].curr
       IN IF c = NullHazard
          THEN /\ hth' = [hth EXCEPT ![t].pc = "push_head"]
               /\ UNCHANGED hslots
          ELSE IF ~hslots[c].active
          THEN /\ hslots' = [hslots EXCEPT ![c].active = TRUE]
               /\ hth' = [hth EXCEPT ![t].pc = "have", ![t].slot = c,
                                     ![t].curr = NullHazard]
          ELSE /\ hth' = [hth EXCEPT ![t].curr = c - 1]
               /\ UNCHANGED hslots
    /\ UNCHANGED <<hsrc, hfreed, hleft>>
    /\ HazardFrame

\* acquire_slot lines 142-143: load head
HzPushHead(t) ==
    /\ hth[t].pc = "push_head"
    /\ hth' = [hth EXCEPT ![t].pc = "push_cas", ![t].curr = Len(hslots)]
    /\ UNCHANGED <<hslots, hsrc, hfreed, hleft>>
    /\ HazardFrame

\* acquire_slot lines 145-157: CAS head, retry on failure
HzPushCas(t) ==
    /\ hth[t].pc = "push_cas"
    /\ IF Len(hslots) = hth[t].curr
       THEN /\ hslots' = Append(hslots, NewSlot)
            /\ hth' = [hth EXCEPT ![t].pc = "have", ![t].slot = Len(hslots) + 1,
                                  ![t].curr = NullHazard]
       ELSE /\ hth' = [hth EXCEPT ![t].pc = "push_head"]
            /\ UNCHANGED hslots
    /\ UNCHANGED <<hsrc, hfreed, hleft>>
    /\ HazardFrame

\* protect line 56: pointer = src.load()
HzProtect(t) ==
    /\ hth[t].pc = "have"
    /\ hth' = [hth EXCEPT ![t].pc = "tp_store", ![t].pointer = hsrc,
                          ![t].seen = NullHazard,
                          ![t].protect = TRUE, ![t].failed = FALSE]
    /\ UNCHANGED <<hslots, hsrc, hfreed, hleft>>
    /\ HazardFrame

\* try_protect called by the user with a pointer src held at some time;
\* lines 36-41: store *pointer to the slot, fence
HzTryProtect(t) ==
    /\ hth[t].pc = "have"
    /\ \E ptr \in 1..hsrc :
         /\ hslots' = [hslots EXCEPT ![hth[t].slot].hazard = ptr]
         /\ hth' = [hth EXCEPT ![t].pc = "tp_load", ![t].pointer = ptr,
                               ![t].seen = NullHazard,
                               ![t].protect = FALSE, ![t].failed = FALSE]
    /\ UNCHANGED <<hsrc, hfreed, hleft>>
    /\ HazardFrame

\* try_protect called by protect, lines 36-41: store *pointer to the slot,
\* fence
HzStore(t) ==
    /\ hth[t].pc = "tp_store"
    /\ hslots' = [hslots EXCEPT ![hth[t].slot].hazard = hth[t].pointer]
    /\ hth' = [hth EXCEPT ![t].pc = "tp_load"]
    /\ UNCHANGED <<hsrc, hfreed, hleft>>
    /\ HazardFrame

\* try_protect lines 42-44, 49: load src, compare, update *pointer
HzValidate(t) ==
    /\ hth[t].pc = "tp_load"
    /\ LET ok == validated(hsrc, hth[t].pointer)
       IN hth' = [hth EXCEPT ![t].seen = hsrc,
                             ![t].protect = @ /\ ~ok,
                             ![t].pc = IF ok THEN "holding" ELSE "tp_clear"]
    /\ UNCHANGED <<hslots, hsrc, hfreed, hleft>>
    /\ HazardFrame

\* try_protect lines 46-50: store 0, *pointer = new_ptr, return false; protect
\* (line 57) then calls try_protect again
HzClear(t) ==
    /\ hth[t].pc = "tp_clear"
    /\ hslots' = [hslots EXCEPT ![hth[t].slot].hazard = NullHazard]
    /\ hth' = [hth EXCEPT ![t].pointer = hth[t].seen,
                          ![t].failed = ~hth[t].protect,
                          ![t].pc = IF hth[t].protect THEN "tp_store" ELSE "have"]
    /\ UNCHANGED <<hsrc, hfreed, hleft>>
    /\ HazardFrame

\* Drop for Shield, line 74: active.store(false)
HzDrop(t) ==
    /\ hth[t].pc \in {"have", "holding"}
    /\ hslots' = [hslots EXCEPT
                    ![hth[t].slot] = [active |-> FALSE,
                                      hazard |-> hazard_after_drop(@.hazard)]]
    /\ hth' = [hth EXCEPT ![t] = HazardIdle]
    /\ UNCHANGED <<hsrc, hfreed, hleft>>
    /\ HazardFrame

\* A reclaiming thread replaces the pointer in src and will then ask
\* all_hazards whether the old one is still protected.
HzRetire(t) ==
    /\ hth[t].pc = "idle"
    /\ hleft > 0
    /\ hleft' = hleft - 1
    /\ hsrc < MaxPtr
    /\ hsrc' = hsrc + 1
    /\ hth' = [hth EXCEPT ![t] = [HazardIdle EXCEPT !.pc = "ah_head", !.old = hsrc]]
    /\ UNCHANGED <<hslots, hfreed>>
    /\ HazardFrame

\* all_hazards lines 179-180: load head
HzScanHead(t) ==
    /\ hth[t].pc = "ah_head"
    /\ hth' = [hth EXCEPT ![t].pc = "ah_active", ![t].curr = Len(hslots)]
    /\ UNCHANGED <<hslots, hsrc, hfreed, hleft>>
    /\ HazardFrame

\* all_hazards lines 181-182, 189: end of the bag, or load active
HzScanActive(t) ==
    /\ hth[t].pc = "ah_active"
    /\ LET c == hth[t].curr
       IN hth' = IF c = NullHazard THEN [hth EXCEPT ![t].pc = "ah_done"]
                 ELSE IF hslots[c].active THEN [hth EXCEPT ![t].pc = "ah_hazard"]
                 ELSE [hth EXCEPT ![t].curr = c - 1]
    /\ UNCHANGED <<hslots, hsrc, hfreed, hleft>>
    /\ HazardFrame

\* all_hazards lines 183-189: load hazard, insert it unless 0
HzScanHazard(t) ==
    /\ hth[t].pc = "ah_hazard"
    /\ LET raw == hslots[hth[t].curr].hazard
       IN hth' = [hth EXCEPT ![t].pc = "ah_active", ![t].curr = @ - 1,
                             ![t].hazards = IF raw # NullHazard THEN @ \cup {raw}
                                            ELSE @]
    /\ UNCHANGED <<hslots, hsrc, hfreed, hleft>>
    /\ HazardFrame

\* The reclaiming thread frees the old pointer unless all_hazards returned it.
HzFree(t) ==
    /\ hth[t].pc = "ah_done"
    /\ hfreed' = IF hth[t].old \in hth[t].hazards THEN hfreed
                 ELSE hfreed \cup {hth[t].old}
    /\ hth' = [hth EXCEPT ![t] = HazardIdle]
    /\ UNCHANGED <<hslots, hsrc, hleft>>
    /\ HazardFrame

HazardStep(t) ==
    \/ HzNew(t)
    \/ HzTryAcquire(t)
    \/ HzPushHead(t)
    \/ HzPushCas(t)
    \/ HzProtect(t)
    \/ HzTryProtect(t)
    \/ HzStore(t)
    \/ HzValidate(t)
    \/ HzClear(t)
    \/ HzDrop(t)
    \/ HzRetire(t)
    \/ HzScanHead(t)
    \/ HzScanActive(t)
    \/ HzScanHazard(t)
    \/ HzFree(t)

HazardNext == \E t \in Threads : HazardStep(t)

(* ---------------------------------------------------------------------- *)
(* OrderedListSet (list_set.rs): sorted list with lock coupling            *)
(* ---------------------------------------------------------------------- *)

\* Number of keys the callers of the set use.
NumSetKeys == 2

\* Number of calls the threads make in all.
SetCalls == 3

SetKeys == 1..NumSetKeys

\* Nodes the calls can allocate; a node is never reused.
MaxNodes == SetCalls

\* Index of the Mutex of head; node n's next is the Mutex of index n.
HeadGuard == 0

\* ptr::null_mut()
NullNode == 0

SetIdle == [pc |-> "idle", op |-> "none", key |-> NullNode, g |-> HeadGuard,
            n |-> NullNode, res |-> "none", was |-> FALSE, now |-> FALSE]

SetInit ==
    /\ lnext = [i \in 0..MaxNodes |-> NullNode]
    /\ ldata = [i \in 1..MaxNodes |-> NullNode]
    /\ llock = [i \in 0..MaxNodes |-> NoThread]
    /\ lth = [t \in Threads |-> SetIdle]
    /\ lleft = SetCalls

SetFrame == UNCHANGED <<mapVars, cacheVars, hazardVars, encVars>>

RECURSIVE SetChainFrom(_, _, _)
SetChainFrom(nx, n, fuel) ==
    IF n = NullNode \/ fuel = 0 THEN <<>>
    ELSE <<n>> \o SetChainFrom(nx, nx[n], fuel - 1)

\* The nodes reachable from head, in order, and their keys.
SetChainIn(nx) == SetChainFrom(nx, nx[HeadGuard], MaxNodes)

SetChain == SetChainIn(lnext)

SetContentsIn(nx, dt) == { dt[n] : n \in Range(SetChainIn(nx)) }

SetContents == SetContentsIn(lnext, ldata)

\* Node::new: the first node not yet allocated.
FreshNode == CHOOSE n \in 1..MaxNodes : ldata[n] = NullNode /\ \A m \in 1..(n - 1) : ldata[m] # NullNode

\* A traversal that gives up its guard before it locks the next node.
holder_released(t) == NoThread

\* Lock coupling: the guard of the current position stays held by t until the
\* next node's Mutex is locked (lines 73, 112-113, 138-140).
holder_while_advancing(t) == t

\* The call of thread t returns res at this step; was and now record whether its
\* key is in the set before and after the step.
SetReturn(t, res, nx, dt) ==
    lth' = [lth EXCEPT ![t].pc = "idle", ![t].res = res,
                       ![t].was = lth[t].key \in SetContents,
                       ![t].now = lth[t].key \in SetContentsIn(nx, dt)]

\* A thread calls insert, remove or contains.
LsCall(t) ==
    /\ lth[t].pc = "idle"
    /\ lleft > 0
    /\ lleft' = lleft - 1
    /\ \E op \in {"insert", "remove", "contains"}, k \in SetKeys :
         lth' = [lth EXCEPT ![t] = [SetIdle EXCEPT !.pc = "lock_head", !.op = op,
                                      !.key = k]]
    /\ UNCHANGED <<lnext, ldata, llock>>
    /\ SetFrame

\* self.head.lock() (lines 92, 107, 130)
LsLockHead(t) ==
    /\ lth[t].pc = "lock_head"
    /\ llock[HeadGuard] = NoThread
    /\ llock' = [llock EXCEPT ![HeadGuard] = t]
    /\ lth' = [lth EXCEPT ![t].pc = "visit", ![t].g = HeadGuard]
    /\ UNCHANGED <<lnext, ldata>>
    /\ UNCHANGED lleft
    /\ SetFrame

\* One iteration of the traversal with the guard g held: the node behind the
\* guard is compared with the key (find lines 68-77, insert lines 109-125,
\* remove lines 131-154).
LsVisit(t) ==
    /\ lth[t].pc = "visit"
    /\ LET l == lth[t]
           g == l.g
           n == lnext[g]
           past == n = NullNode \/ ldata[n] > l.key
           unlocked == [llock EXCEPT ![g] = NoThread]
       IN IF ~past /\ ldata[n] < l.key
          THEN /\ lth' = [lth EXCEPT ![t].pc = "lock_next", ![t].n = n]
               /\ llock' = [llock EXCEPT ![g] = holder_while_advancing(t)]
               /\ UNCHANGED <<lnext, ldata>>
          ELSE IF ~past /\ l.op = "remove"
          THEN /\ lth' = [lth EXCEPT ![t].pc = "rm_lock", ![t].n = n]
               /\ UNCHANGED <<lnext, ldata, llock>>
          ELSE IF past /\ l.op = "insert"
          THEN /\ lnext' = [lnext EXCEPT ![g] = FreshNode, ![FreshNode] = n]
               /\ ldata' = [ldata EXCEPT ![FreshNode] = l.key]
               /\ llock' = unlocked
               /\ SetReturn(t, "ok", lnext', ldata')
          ELSE /\ llock' = unlocked
               /\ UNCHANGED <<lnext, ldata>>
               /\ SetReturn(t, IF l.op = "contains"
                               THEN (IF past THEN "false" ELSE "true")
                               ELSE "err", lnext, ldata)
    /\ UNCHANGED lleft
    /\ SetFrame

\* node.next.lock() of the node the traversal moves to
LsLockNext(t) ==
    /\ lth[t].pc = "lock_next"
    /\ llock[lth[t].n] = NoThread
    /\ llock' = [llock EXCEPT ![lth[t].n] = t]
    /\ lth' = [lth EXCEPT ![t].pc = "unlock_prev"]
    /\ UNCHANGED <<lnext, ldata>>
    /\ UNCHANGED lleft
    /\ SetFrame

\* The guard of the previous position is dropped (find line 73, insert line
\* 113, remove line 139).
LsUnlockPrev(t) ==
    /\ lth[t].pc = "unlock_prev"
    /\ llock' = [llock EXCEPT ![lth[t].g] = IF @ = t THEN NoThread ELSE @]
    /\ lth' = [lth EXCEPT ![t].pc = "visit", ![t].g = lth[t].n]
    /\ UNCHANGED <<lnext, ldata>>
    /\ UNCHANGED lleft
    /\ SetFrame

\* remove line 144: lock the next of the node to remove
LsRemoveLock(t) ==
    /\ lth[t].pc = "rm_lock"
    /\ llock[lth[t].n] = NoThread
    /\ llock' = [llock EXCEPT ![lth[t].n] = t]
    /\ lth' = [lth EXCEPT ![t].pc = "rm_unlink"]
    /\ UNCHANGED <<lnext, ldata>>
    /\ UNCHANGED lleft
    /\ SetFrame

\* remove lines 145-148: unlink the node, drop both guards, return its data
LsRemoveUnlink(t) ==
    /\ lth[t].pc = "rm_unlink"
    /\ lnext' = [lnext EXCEPT ![lth[t].g] = lnext[lth[t].n]]
    /\ llock' = [llock EXCEPT ![lth[t].g] = NoThread, ![lth[t].n] = NoThread]
    /\ SetReturn(t, "ok", lnext', ldata)
    /\ UNCHANGED ldata
    /\ UNCHANGED lleft
    /\ SetFrame

SetStep(t) ==
    \/ LsCall(t)
    \/ LsLockHead(t)
    \/ LsVisit(t)
    \/ LsLockNext(t)
    \/ LsUnlockPrev(t)
    \/ LsRemoveLock(t)
    \/ LsRemoveUnlink(t)

SetNext == \E t \in Threads : SetStep(t)

(* ---------------------------------------------------------------------- *)
(* Key encoding (get_so_bucket_key, get_so_data_key, lookup_bucket)        *)
(* ---------------------------------------------------------------------- *)

\* The values size can take: the powers of two a bucket index of which has its
\* topmost bit 0.
Sizes == { Pow2(e) : e \in 0..(KeyBits - 1) }

\* let bucket = index % size (line 116)
bucket_of(index, sz) == index % sz

\* No key function applied.
EncIdle ==
    /\ ekey = 0
    /\ ekey2 = 0
    /\ esize = InitSize
    /\ eout = <<>>

EncInit ==
    /\ ekey \in ValidKeys
    /\ ekey2 \in ValidKeys
    /\ esize \in Sizes
    /\ eout = <<>>

\* The split-order keys of both keys, and the bucket of the first and its key.
EncApply ==
    /\ eout = <<>>
    /\ eout' = [data |-> get_so_data_key(ekey),
                data2 |-> get_so_data_key(ekey2),
                bucket |-> bucket_of(ekey, esize),
                bkey |-> get_so_bucket_key(bucket_of(ekey, esize)),
                bkey2 |-> get_so_bucket_key(ekey2)]
    /\ UNCHANGED <<ekey, ekey2, esize>>
    /\ UNCHANGED <<mapVars, cacheVars, hazardVars, setVars>>

EncNext == EncApply

(* ---------------------------------------------------------------------- *)
(* Specification                                                           *)
(* ---------------------------------------------------------------------- *)

Step(t) ==
    \/ Call(t)
    \/ LookupBucketSize(t)
    \/ LookupBucketSlot(t)
    \/ MakeBucketParent(t)
    \/ InsertBucketFind(t)
    \/ InsertBucketCas(t)
    \/ MakeBucketLoad(t)
    \/ MakeBucketStore(t)
    \/ FindHarrisLoop(t)
    \/ FindHarrisCas(t)
    \/ InsertCount(t)
    \/ InsertSize(t)
    \/ InsertGrow(t)
    \/ InsertCas(t)
    \/ InsertRetry(t)
    \/ DeleteMark(t)
    \/ DeleteUnlink(t)
    \/ DeleteCount(t)

Next == \E t \in Threads : Step(t)

\* The state after SplitOrderedList::new(), with the operations of scenario sc
\* still to be called.
InitWith(sc) ==
    /\ nodes = InitNodes
    /\ slots = InitSlots
    /\ size = InitSize
    /\ count = 0
    /\ th = [t \in Threads |-> IdleLocals]
    /\ setup = sc.setup
    /\ todo = [t \in Threads |-> IF t \in DOMAIN sc.prog THEN sc.prog[t] ELSE <<>>]
    /\ spawned = FALSE
    /\ scen = sc
    /\ nret = 0
    /\ stable = [k \in Keys |-> <<>>]
    /\ ref = [k \in Keys |-> 0]
    /\ deleted = <<>>
    /\ CacheInit
    /\ HazardInit
    /\ SetInit
    /\ EncIdle

(* ---------------------------------------------------------------------- *)
(* Scenarios: what the callers do                                          *)
(* ---------------------------------------------------------------------- *)

\* tests/split_ordered_list.rs smoke(), its keys 37 and 42 taken modulo
\* 2^KeyBits (5 and 10) and the stored values as key + 1
SmokeTest == << Ins(5, 6), Look(10), Look(5), Ins(10, 11), Look(10), Look(5),
                Del(5), Look(10), Look(5), Del(5), Look(10), Look(5) >>

\* tests/split_ordered_list.rs buckets(): inserts 0,1,2,3,4,6,8,10,14 and then 7
BucketsPrefix == << Ins(0, 1), Ins(1, 2), Ins(2, 3), Ins(3, 4), Ins(4, 5),
                    Ins(6, 7), Ins(8, 9), Ins(10, 11), Ins(14, 15) >>

BucketsTest == BucketsPrefix \o << Ins(7, 8) >>

\* tests/split_ordered_list.rs fire()
FireTest == << Ins(9, 10), Ins(8, 9), Ins(13, 14), Ins(5, 6), Ins(7, 8), Look(7) >>

Sequential(script) == [setup |-> script, prog |-> <<>>]

SeqScenarios == { Sequential(SmokeTest), Sequential(BucketsTest), Sequential(FireTest) }

\* The operations a spawned thread t may call on a key of K; it inserts the
\* value t + 1.
OpsOn(K, t) == { Ins(k, t + 1) : k \in K } \cup { Del(k) : k \in K }
               \cup { Look(k) : k \in K }

\* After setup, thread 1 calls one operation, or one and then a lookup of the
\* same key, and thread 2 calls one operation.
Concurrent(script, K) ==
    { [setup |-> script, prog |-> <<p1, <<o2>> >>] :
        p1 \in { <<o>> : o \in OpsOn(K, 1) }
               \cup { <<o, Look(o.key)>> : o \in OpsOn(K, 1) },
        o2 \in OpsOn(K, 2) }

\* A delete whose node stays linked after it is marked (an insert in front of it
\* makes the unlinking CAS fail), then the materialization of a bucket whose
\* sentinel goes right behind that node, then the same delete again.
MarkedScenarios ==
    { [setup |-> SubSeq(BucketsPrefix, 1, 5),
       prog |-> << <<Del(4), Look(6), Del(4)>>, <<Ins(8, 3)>> >>] }

\* A key whose topmost bit is set.
BadKey == Pow2(KeyBits - 1) + 1

\* A call with an invalid key, by the main thread after one insert, or by a
\* spawned thread next to an insert of another thread.
InvalidScenarios ==
    { Sequential(<<Ins(0, 1), o>>) : o \in OpsOn({BadKey}, 1) }
    \cup { [setup |-> <<Ins(0, 1)>>, prog |-> << <<o>>, <<Ins(4, 3)>> >>] :
             o \in OpsOn({BadKey}, 1) }

ConcScenarios ==
    Concurrent(<<Ins(0, 1), Ins(2, 3)>>, {0, 2, 4, 12})
    \cup Concurrent(SubSeq(BucketsPrefix, 1, 4), {4, 6})
    \cup Concurrent(SubSeq(BucketsPrefix, 1, 5), {2, 6})
    \cup MarkedScenarios

Scenarios == SeqScenarios \cup ConcScenarios \cup InvalidScenarios

Init == \E sc \in Scenarios : InitWith(sc)

Spec == Init /\ [][Next]_vars

\* The runs the progress properties are checked on: the sequential tests, two
\* threads with one call each on the keys of one gap of the list or on the keys
\* of one bucket that is not yet materialized, and the marked-node scenario.
ProgressScenarios ==
    SeqScenarios
    \cup { sc \in Concurrent(<<Ins(0, 1), Ins(2, 3)>>, {4, 12})
                 \cup Concurrent(SubSeq(BucketsPrefix, 1, 5), {2, 6}) :
             Len(sc.prog[1]) = 1 }
    \cup MarkedScenarios

ProgressInit == \E sc \in ProgressScenarios : InitWith(sc)

\* The map as constructed, with no caller.
MapIdle ==
    /\ nodes = InitNodes
    /\ slots = InitSlots
    /\ size = InitSize
    /\ count = 0
    /\ th = [t \in Threads |-> IdleLocals]
    /\ setup = <<>>
    /\ todo = [t \in Threads |-> <<>>]
    /\ spawned = FALSE
    /\ scen = Sequential(<<>>)
    /\ nret = 0
    /\ stable = [k \in Keys |-> <<>>]
    /\ ref = [k \in Keys |-> 0]
    /\ deleted = <<>>

\* Every structure as constructed.
Idle == \E m \in {TRUE} : MapIdle /\ CacheInit /\ HazardInit /\ SetInit /\ EncIdle

\* The key functions applied to every pair of valid keys and every size.
EncStart == \E m \in {TRUE} : MapIdle /\ CacheInit /\ HazardInit /\ SetInit /\ EncInit

EncSpec == EncStart /\ [][EncNext]_vars

\* Threads calling Cache::get_or_insert_with.
CacheSpec ==
    Idle /\ [][CacheNext]_vars

\* Threads creating, using and dropping shields, and retiring pointers.
HazardSpec ==
    Idle /\ [][HazardNext]_vars

\* Threads calling insert, remove and contains of OrderedListSet.
SetSpec ==
    Idle /\ [][SetNext]_vars

\* Every thread that can take a step keeps being scheduled.
FairSpec ==
    ProgressInit /\ [][Next]_vars /\ \A t \in Threads : WF_vars(Step(t))

(* ---------------------------------------------------------------------- *)
(* Observations used by the properties                                     *)
(* ---------------------------------------------------------------------- *)

\* Every operation of the scenario has been called and has returned.
AllDone ==
    /\ setup = <<>>
    /\ \A t \in Threads : todo[t] = <<>> /\ th[t].pc = "idle"

AnyPending == \E t \in Threads : Pending(th[t])

\* Calls that are over: returned, or aborted by a panic.
Completed == nret + Cardinality({ t \in Threads : th[t].pc = "panicked" })

\* The operations the spawned threads of scenario sc call.
ProgOps(sc) == UNION { Range(sc.prog[t]) : t \in DOMAIN sc.prog }

\* Keys with a live entry, and the reference array read off the list.
LiveKeys == { k \in ValidKeys : Live(k) # {} }

Holds(k, v) == \E n \in Live(k) : nodes[n].value = v

\* The sentinels of bucket b reachable from the head.
Sentinels(b) ==
    { n \in Range(Chain) : nodes[n].key = get_so_bucket_key(b) /\ nodes[n].value = 0 }

\* A run in which only the main thread calls operations.
SeqRun == scen.prog = <<>>

\* A single-threaded run of inserts of distinct keys.
SeqInsertRun ==
    /\ SeqRun
    /\ \A i \in DOMAIN scen.setup : scen.setup[i].kind = "insert"
    /\ \A i, j \in DOMAIN scen.setup :
         i # j => scen.setup[i].key # scen.setup[j].key

\* A run in which the spawned threads only insert, on pairwise disjoint key sets
\* that setup left absent.
DisjointInsertRun ==
    /\ scen.prog # <<>>
    /\ \A o \in ProgOps(scen) : o.kind = "insert"
    /\ \A o \in ProgOps(scen), q \in Range(scen.setup) : o.key # q.key
    /\ \A t, u \in DOMAIN scen.prog :
         t # u => \A o \in Range(scen.prog[t]), q \in Range(scen.prog[u]) :
                     o.key # q.key

(* ---------------------------------------------------------------------- *)
(* Properties                                                              *)
(* ---------------------------------------------------------------------- *)

\* In a single-threaded run every returned result is the reference array's.
SeqResults ==
    SeqRun => \A t \in Threads : th[t].res.kind # "none" => th[t].res = th[t].want

\* In a single-threaded run, between calls, the list holds exactly the entries
\* of the reference array and count is their number.
SeqContents ==
    SeqRun /\ (\A t \in Threads : th[t].pc = "idle") =>
        /\ \A k \in ValidKeys :
             IF ref[k] = 0 THEN Live(k) = {}
             ELSE Cardinality(Live(k)) = 1 /\ Holds(k, ref[k])
        /\ count = Cardinality(LiveKeys)

\* C1: in every single-threaded run of insert, lookup and delete on valid keys
\* each call returns, with the result the reference associative array gives
\* (insert of an absent key Ok, of a present key Err with the rejected value,
\* delete of a present key its value, of an absent key Err), and between calls
\* the list's live entries and count are those of the reference array.
C1_SequentialRefinement ==
    /\ [](SeqResults /\ SeqContents)
    /\ \A t \in Threads : (SeqRun /\ Pending(th[t])) ~> (th[t].pc = "idle")

C3_InsertIfAbsent ==
    \A k \in ValidKeys : Len(stable[k]) <= 1 /\ Cardinality(Live(k)) <= 1

\* Every insert of the threads is in the list with its value and count is the
\* number of live keys.
AllInserted ==
    /\ \A o \in ProgOps(scen) : Holds(o.key, o.val)
    /\ count = Cardinality(LiveKeys)

\* C4: when the threads insert on pairwise disjoint key sets, all inserts
\* complete; then every inserted key is in the list with its value and count
\* equals the number of live keys.
C4_DisjointInsertsComplete == DisjointInsertRun ~> (AllDone /\ AllInserted)

\* A delete call that is over without Ok: it returned Err(()) or it was aborted.
DeleteFailed(l) ==
    \/ l.pc = "idle" /\ l.res.kind = "delete" /\ ~l.res.ok
    \/ l.pc = "panicked" /\ l.op.kind = "delete" /\ valid_key(l.op.key)

\* C5: delete is definitive: no entry (node) is returned as Ok by two delete
\* calls, and a delete call ends without Ok only if at some instant during the
\* call its key had no live entry.
C5_DeleteDefinitive ==
    /\ \A i, j \in DOMAIN deleted : i # j => deleted[i] # deleted[j]
    /\ \A t \in Threads : DeleteFailed(th[t]) => th[t].absent

\* Every insert of the script returned Ok and its key is in the list with its
\* value.
ScriptInserted ==
    \A i \in DOMAIN scen.setup :
        /\ stable[scen.setup[i].key] = <<scen.setup[i].val>>
        /\ Holds(scen.setup[i].key, scen.setup[i].val)

\* C6: a single-threaded sequence of inserts of distinct valid keys, whatever
\* resize thresholds it crosses and buckets it first touches, completes with
\* every insert Ok and every key in the list with its value.
C6_InsertsAcrossResize == SeqInsertRun ~> (AllDone /\ ScriptInserted)

\* C7: lock-freedom: whenever some call is pending and the threads keep being
\* scheduled, some call eventually completes.  A step completes at most one
\* call, so a completion is a change of the parity of Completed.
C7_LockFree ==
    \A b \in {0, 1} : (AnyPending /\ Completed % 2 = b) ~> (Completed % 2 # b)

\* C8: no call on a valid key is aborted because a compare-and-swap or a
\* positioning search lost a race.
C8_NoLostRaceSurfaced ==
    \A t \in Threads : th[t].pc = "panicked" => th[t].why = "assert_valid_key"

\* make_bucket has returned to lookup_bucket for thread t's bucket: exactly one
\* sentinel of the bucket is reachable, the slot holds it, the cursor is at it.
Materialized(t) ==
    /\ th[t].stk = <<>>
    /\ th[t].made.p # Null
    /\ slots[th[t].bucket].p = th[t].made.p
    /\ Sentinels(th[t].bucket) = {th[t].made.p}

\* C9: bucket materialization is idempotent: every thread that enters
\* make_bucket for an uninitialized bucket returns from it, exactly one sentinel
\* of the bucket then being reachable, the slot holding it and the returned
\* cursor being at it.
C9_MaterializationIdempotent ==
    \A t \in Threads : (th[t].stk # <<>>) ~> Materialized(t)

IsPow2(n) == \E e \in 0..KeyBits : n = Pow2(e)

\* C10: size is always a power of two, at least 2, and every change of size
\* doubles it.
C10_SizeDoubles ==
    /\ [](IsPow2(size) /\ size >= InitSize)
    /\ [][size' # size => size' = 2 * size]_vars

\* A state after two doublings.
C10_Witness == size = 4 * InitSize

\* C11: a call with a key whose topmost bit is set fails with the fatal
\* assertion at its first step, leaving nodes, slots, size and count unchanged;
\* the assertion never fires for a key whose topmost bit is 0.
C11_InvalidKeyAsserted ==
    /\ [](\A t \in Threads :
            th[t].why = "assert_valid_key" => th[t].op.key \notin ValidKeys)
    /\ [][\A t \in Threads :
            th[t].pc = "idle" /\ th'[t].pc # "idle" /\ th'[t].op.key \notin ValidKeys =>
                /\ th'[t].pc = "panicked"
                /\ th'[t].why = "assert_valid_key"
                /\ UNCHANGED <<nodes, slots, size, count>>]_vars

\* An invalid call was refused after the map had been filled by a valid one.
C11_Witness ==
    /\ count > 0
    /\ \E t \in Threads : th[t].pc = "panicked" /\ th[t].why = "assert_valid_key"

\* The live entries of the list: transformed key and value of the unmarked data
\* nodes reachable from the head.
LiveEntries ==
    { <<nodes[n].key, nodes[n].value>> :
        n \in { m \in Range(Chain) : nodes[m].value # 0 /\ nodes[m].next.t = 0 } }

\* What thread t's own steps change of its locals (the observations that other
\* threads' steps update are left out).
OwnLocals(l) == [l EXCEPT !.absent = FALSE, !.expect = <<>>, !.raced = FALSE]

\* C12: lookup has no side effects: no step of a lookup call changes count,
\* size or the set of live key/value entries.
C12_LookupNoSideEffects ==
    [][\A t \in Threads :
         th[t].op.kind = "lookup" /\ OwnLocals(th'[t]) # OwnLocals(th[t]) =>
             count' = count /\ size' = size /\ LiveEntries' = LiveEntries]_vars

SlotAtSentinel(b) ==
    slots[b].p # Null =>
        /\ slots[b].p \in Sentinels(b)
        /\ nodes[slots[b].p].next.t = 0

\* C19: a directory slot that has become non-null never changes afterwards, and
\* it points to an unmarked node, reachable from the head, with the bucket's
\* bucket key.
C19_SlotsStable ==
    /\ [](\A b \in Buckets : SlotAtSentinel(b))
    /\ [][\A b \in Buckets : slots[b].p # Null => slots'[b] = slots[b]]_vars

\* Positions of the code where a linking or unlinking compare-and-swap of
\* insert, delete or insert_bucket is attempted, and where a positioning search
\* runs.
CasSteps == {"ins_cas", "ib_cas", "del_mark"}

SearchSteps == {"fh_loop", "fh_cas", "ib_find"}

\* C20: every retry loop re-derives its position: a compare-and-swap attempt of
\* insert, delete or insert_bucket is entered only from a positioning search,
\* never directly after the failed attempt.
C20_RetryRepositions ==
    [][\A t \in Threads :
         th'[t].pc \in CasSteps /\ th'[t].pc # th[t].pc =>
             th[t].pc \in SearchSteps]_vars

\* C13: get_or_insert_with runs f only once per key: for every key at most one
\* invocation calls its f, and every invocation returns the value that call
\* produced (so no invocation ends in a panic instead of returning).
C13_ComputedOnce ==
    /\ \A k \in CacheKeys : Len(cruns[k]) <= 1
    /\ \A t \in Threads :
         /\ cth[t].pc # "panicked"
         /\ cth[t].ret # 0 =>
              /\ cruns[cth[t].key] # <<>>
              /\ cth[t].ret = CacheF(Head(cruns[cth[t].key]), cth[t].key)

\* A thread is running the f of its call.
RunningF(t) == cth[t].pc \in {"call_f", "in_f"}

\* Thread t waits for the Mutex, which thread u holds.
BlockedOnMutex(t, u) ==
    /\ cth[t].pc \in {"lock", "lock2", "relock"}
    /\ u # NoThread
    /\ cmutex = u

\* C14: an invocation does not block an invocation with a different key: a
\* thread running f does not hold the Mutex, so no thread waits for the Mutex
\* behind a running f, and a thread waiting on a Condvar waits for the entry of
\* its own key, which is still Computing.
C14_DifferentKeysDoNotBlock ==
    \A t \in Threads :
      /\ RunningF(t) => cmutex # t
      /\ \A u \in Threads \ {t} : BlockedOnMutex(t, u) => ~RunningF(u)
      /\ cth[t].pc = "wait" => cdata[cth[t].key] = Computing

\* f1 and f2 of two calls with different keys are both running.
C14_Witness ==
    \E t, u \in Threads :
      /\ cth[t].key # cth[u].key
      /\ cth[t].pc = "in_f"
      /\ cth[u].pc = "in_f"

\* C15: protect and try_protect validate after announcing.  A shield whose
\* try_protect returned true (or whose protect returned) has its pointer in its
\* active slot, read that pointer from src after the slot was written, and the
\* pointer is not freed while the shield lives: a thread that changed src away
\* from it and then ran all_hazards has it in the returned set.  A try_protect
\* that returned false left the slot 0 and *pointer equal to the value read.
C15_ProtectValidates ==
    \A t \in Threads :
      /\ hth[t].pc = "holding" =>
           /\ hslots[hth[t].slot] = [active |-> TRUE, hazard |-> hth[t].pointer]
           /\ hth[t].seen = hth[t].pointer
           /\ hth[t].pointer \notin hfreed
           /\ \A r \in Threads :
                (hth[r].pc = "ah_done" /\ hth[r].old = hth[t].pointer)
                  => hth[r].old \in hth[r].hazards
      /\ (hth[t].pc = "have" /\ hth[t].failed) =>
           /\ hslots[hth[t].slot].hazard = NullHazard
           /\ hth[t].pointer = hth[t].seen

\* A shield protects the pointer that another thread has retired and looked
\* for with all_hazards.
C15_Witness ==
    \E t, r \in Threads :
      /\ hth[t].pc = "holding"
      /\ hth[r].pc = "ah_done"
      /\ hth[r].old = hth[t].pointer
      /\ hsrc # hth[t].pointer

\* The pointers announced by the live shields.
LiveHazards ==
    { hth[u].pointer :
        u \in { w \in Threads : hth[w].pc \in {"tp_load", "tp_clear", "holding"} } }

\* C16: all_hazards does not return values that are no longer protected: every
\* value it puts in the set is the pointer of some live shield, and dropping a
\* shield clears its slot and releases it.
C16_OnlyLiveHazards ==
    [][\A t \in Threads :
         /\ (hth[t].pc = "ah_hazard" /\ hth'[t].pc = "ah_active") =>
              (hth'[t].hazards \ hth[t].hazards) \subseteq LiveHazards
         /\ (hth[t].pc \in {"have", "holding"} /\ hth'[t].pc = "idle") =>
              hslots'[hth[t].slot] = [active |-> FALSE, hazard |-> NullHazard]]_vars

\* Thread t waits for a Mutex another thread holds.
SetBlocked(t) ==
    \/ lth[t].pc = "lock_head" /\ llock[HeadGuard] # NoThread
    \/ lth[t].pc \in {"lock_next", "rm_lock"} /\ llock[lth[t].n] # NoThread

\* C17: OrderedListSet is a linearizable sorted set under lock coupling: the
\* list is strictly increasing, insert(k) returns Err(k) exactly when k is
\* present and otherwise adds it, remove(k) returns Ok(k) exactly when k is
\* present (and takes it out) and otherwise Err(()), contains(k) tells whether
\* k is present, and the calls never deadlock: while a call is pending, some
\* pending call can take a step, and a Mutex is held only by a pending call.
C17_LinearizableSortedSet ==
    /\ \A i, j \in 1..Len(SetChain) :
         i < j => ldata[SetChain[i]] < ldata[SetChain[j]]
    /\ \A t \in Threads :
         /\ lth[t].op = "insert" =>
              /\ lth[t].res = "err" => (lth[t].was /\ lth[t].now)
              /\ lth[t].res = "ok" => (~lth[t].was /\ lth[t].now)
         /\ lth[t].op = "remove" =>
              /\ lth[t].res = "ok" => (lth[t].was /\ ~lth[t].now)
              /\ lth[t].res = "err" => (~lth[t].was /\ ~lth[t].now)
         /\ lth[t].op = "contains" =>
              /\ lth[t].res = "true" => lth[t].was
              /\ lth[t].res = "false" => ~lth[t].was
    /\ (\E t \in Threads : lth[t].pc # "idle") =>
         \E t \in Threads : lth[t].pc # "idle" /\ ~SetBlocked(t)
    /\ \A i \in 0..MaxNodes :
         llock[i] # NoThread => lth[llock[i]].pc # "idle"

\* An insert has been refused for a key that is present while another call is
\* inside the list, holding the guard of a node it moved to.
C17_Witness ==
    \E t, u \in Threads :
      /\ t # u
      /\ lth[t].op = "insert"
      /\ lth[t].res = "err"
      /\ lth[u].pc = "visit"
      /\ lth[u].g # HeadGuard

\* The positions of node n in the list traversed from the head.
ChainPos(n) == { i \in DOMAIN Chain : Chain[i] = n }

C22_ResizeTrigger ==
    /\ [](\A t \in Threads :
            /\ th[t].pc \in {"ins_count", "ins_size", "ins_grow"} =>
                 (th[t].op.kind = "insert" /\ th[t].phase = 1)
            /\ th[t].pc = "ins_grow" =>
                 /\ th[t].prev_count > th[t].prev_size * LOAD_FACTOR
                 /\ size \in {th[t].prev_size, 2 * th[t].prev_size}
                      \/ size > 2 * th[t].prev_size)
    /\ [][\A t \in Threads :
            /\ (th'[t].pc = "ins_size" /\ th[t].pc # "ins_size") =>
                 (th[t].pc = "ins_count" /\ th'[t].prev_count = count' /\ count' = count + 1)
            /\ (th'[t].pc = "ins_grow" /\ th[t].pc # "ins_grow") =>
                 (th[t].pc = "ins_size" /\ th'[t].prev_size = size)
            /\ (th[t].pc = "ins_grow" /\ th'[t].pc # "ins_grow") =>
                 /\ th'[t].phase = 2
                 /\ size' = IF size = th[t].prev_size THEN 2 * th[t].prev_size ELSE size
            /\ (th[t].pc = "ins_size" /\ th'[t].pc \notin {"ins_size", "ins_grow"}) =>
                 (th'[t].phase = 2 /\ ~(th[t].prev_count > size * LOAD_FACTOR))]_vars
    /\ [][size' # size =>
            \E t \in Threads : th[t].pc = "ins_grow" /\ th'[t].pc # "ins_grow"]_vars

\* Two inserts are about to attempt the doubling from the same size.
C22_Witness ==
    \E t, u \in Threads :
      /\ t # u
      /\ th[t].pc = "ins_grow"
      /\ th[u].pc = "ins_grow"
      /\ th[t].prev_size = th[u].prev_size

\* The unmarked data nodes linked in the list.
LiveNodes == { n \in Range(Chain) : nodes[n].value # 0 /\ nodes[n].next.t = 0 }

\* C23: count is at least the number of unmarked data nodes linked in the list,
\* and the unsigned counter never wraps below zero.
C23_CountCoversLive ==
    /\ [](count >= Cardinality(LiveNodes))
    /\ [][count' # count => (count' = count + 1 \/ count' = count - 1)]_vars

\* C24: key encoding.  For keys and bucket indices with topmost bit 0 the data
\* key is odd and distinct for distinct keys, the bucket key is even, so no data
\* key equals a bucket key; and for every power-of-two size and b = k mod size
\* the bucket key of b is strictly less than the data key of k, with no other
\* bucket index below size having a bucket key strictly between them.
C24_KeyEncoding ==
    eout # <<>> =>
      /\ eout.data % 2 = 1
      /\ (ekey # ekey2 => eout.data # eout.data2)
      /\ eout.bkey % 2 = 0
      /\ eout.bkey2 % 2 = 0
      /\ eout.data # eout.bkey2
      /\ eout.bkey < eout.data
      /\ \A b \in 0..(esize - 1) :
           b # eout.bucket =>
             ~(eout.bkey < get_so_bucket_key(b) /\ get_so_bucket_key(b) < eout.data)

\* The keys of a key that is not its own bucket index, with a second key of
\* the same bucket, have been computed.
C24_Witness ==
    /\ eout # <<>>
    /\ eout.bucket # ekey
    /\ ekey2 # ekey
    /\ bucket_of(ekey2, esize) = eout.bucket
    /\ esize > InitSize

\* Thread t has a live Shield (acquire_slot has returned its slot).
OwnsSlot(t) == hth[t].pc \in {"have", "tp_store", "tp_load", "tp_clear", "holding"}

\* C25: hazard slots are exclusively owned: no slot is owned by two live
\* Shields at the same time; a slot is handed out only by the false-to-true
\* compare-and-swap on active or by being freshly allocated; and slots once
\* pushed are never removed from the bag's list.
C25_SlotsExclusive ==
    /\ [](\A t \in Threads :
            OwnsSlot(t) =>
              /\ hth[t].slot \in 1..Len(hslots)
              /\ hslots[hth[t].slot].active
              /\ \A u \in Threads \ {t} : OwnsSlot(u) => hth[u].slot # hth[t].slot)
    /\ [][\A t \in Threads :
            (OwnsSlot(t)' /\ ~OwnsSlot(t)) =>
              \/ /\ hth[t].pc = "tai_cas"
                 /\ hth'[t].slot \in 1..Len(hslots)
                 /\ ~hslots[hth'[t].slot].active
                 /\ hslots'[hth'[t].slot].active
              \/ /\ hth[t].pc = "push_cas"
                 /\ hth'[t].slot = Len(hslots) + 1
                 /\ Len(hslots') = Len(hslots) + 1]_vars
    /\ [][Len(hslots') >= Len(hslots)]_vars

\* Two Shields are alive at once, one of them on a recycled slot: three
\* Shields have been created and the bag has two slots.
C25_Witness ==
    /\ \E t, u \in Threads : t # u /\ OwnsSlot(t) /\ OwnsSlot(u)
    /\ hleft = 0
    /\ hsrc = 1
    /\ Len(hslots) = 2

\* C26: buckets 0 and 1 are never re-derived: their slots are non-null (and
\* keep the sentinels installed at construction) in every reachable state, so
\* make_bucket and get_parent_bucket are never invoked with bucket 0 or 1 and
\* assert_ne!(bucket, 1) never fires; for every bucket >= 2 get_parent_bucket
\* returns the bucket with its highest set bit cleared, strictly smaller than
\* the bucket, so the buckets of nested make_bucket calls strictly decrease and
\* the recursion depth is bounded.
C26_BaseBucketsFixed ==
    /\ slots[0] = Ptr(1, 0)
    /\ slots[1] = Ptr(2, 0)
    /\ \A b \in Buckets :
         b >= 2 =>
           /\ get_parent_bucket(b) < b
           /\ \E e \in 1..KeyBits :
                /\ Pow2(e) <= b
                /\ b < Pow2(e + 1)
                /\ get_parent_bucket(b) = b - Pow2(e)
    /\ \A t \in Threads :
         /\ th[t].why # "get_parent_bucket"
         /\ Len(th[t].stk) <= KeyBits
         /\ \A i \in DOMAIN th[t].stk :
              /\ th[t].stk[i] >= 2
              /\ i > 1 => th[t].stk[i - 1] = get_parent_bucket(th[t].stk[i])

\* make_bucket has called itself for the parent of the bucket it was asked for.
C26_Witness == \E t \in Threads : Len(th[t].stk) >= 2

====
